---- MODULE Spec2Model ----
(***************************************************************************)
(* Model of division/build.go: a flat, code-prefixed dataset (provinces,  *)
(* cities, areas, streets) is assembled into a forest (buildTrees),       *)
(* numbered as a nested set (assignKeys / indexTree) and emitted as one   *)
(* INSERT statement per node (genSQLFile / genSQL).                        *)
(*                                                                         *)
(* Strings are sequences of byte values ("110000" is <<49,49,48,...>>).   *)
(* Slice indexes and map values are 0-based as in the Go code; sequences  *)
(* of the model are 1-based, so an access adds one.                        *)
(***************************************************************************)
EXTENDS Integers, Sequences, FiniteSets, TLC

VARIABLES provinces, cities, areas, streets,
          trees, provinceOrder, cityOrder, areaOrder,
          pending, out, pc, recovered

vars == <<provinces, cities, areas, streets,
          trees, provinceOrder, cityOrder, areaOrder,
          pending, out, pc, recovered>>

----------------------------------------------------------------------------
(* Bounds of the model *)

\* total number of flat records over the four input collections
MaxRecords == 5

----------------------------------------------------------------------------
(* Strings as byte sequences *)

\* the byte string of a sequence of decimal digits
Str(ds) == [i \in DOMAIN ds |-> 48 + ds[i]]

Zeros(n) == [i \in 1..n |-> 48]

NulBytes(n) == [i \in 1..n |-> 0]

\* the value a panicking call yields in the model (no byte string contains -1)
Panic == <<-1>>

\* the panic main recovered from, "nil" while there was none
\* (variable recovered): "runtime error", "os.Create error", "f.Write error"

\* the parent code buildTrees gives every province: "0"
RootParentCode == <<48>>

\* []byte(code)[:n].  With at least n bytes it is the n-byte prefix.  With
\* fewer, the slice expression reaches into the capacity of the conversion's
\* result, which the language leaves to the implementation: with spare
\* capacity (a zeroed buffer) the prefix is padded with NUL bytes, with none
\* the expression panics (slice bounds out of range).
SlicePrefix(code, n, spare) ==
    IF Len(code) >= n THEN SubSeq(code, 1, n)
    ELSE IF spare THEN code \o NulBytes(n - Len(code))
    ELSE Panic

getProvince(code, spare) ==
    LET p == SlicePrefix(code, 2, spare)
    IN  IF p = Panic THEN Panic ELSE p \o Zeros(4)

getCity(code, spare) ==
    LET c == SlicePrefix(code, 4, spare)
    IN  IF c = Panic THEN Panic ELSE c \o Zeros(2)

getArea(code, spare) == SlicePrefix(code, 6, spare)

----------------------------------------------------------------------------
(* Go maps from string to int *)

EmptyMap == [k \in {} |-> 0]

\* m[k] = v
MapSet(m, k, v) == [x \in DOMAIN m \cup {k} |-> IF x = k THEN v ELSE m[x]]

\* m[k] as an rvalue: the zero value for a key that is not in the map
MapGet(m, k) == IF k \in DOMAIN m THEN m[k] ELSE 0

----------------------------------------------------------------------------
(* The input: the record universes the four collections are drawn from *)

flatNode(code, parent) == [Code |-> code, ParentCode |-> parent]

\* "110000", "120000", and "1", shorter than a province code
ProvinceData ==
    { flatNode(Str(<<1,1,0,0,0,0>>), Str(<<0>>)),
      flatNode(Str(<<1,2,0,0,0,0>>), Str(<<0>>)),
      flatNode(Str(<<1>>), Str(<<0>>)) }

\* "110100", "120100", and "130100", whose province is in no dataset
CityData ==
    { flatNode(Str(<<1,1,0,1,0,0>>), Str(<<1,1,0,0,0,0>>)),
      flatNode(Str(<<1,2,0,1,0,0>>), Str(<<1,2,0,0,0,0>>)),
      flatNode(Str(<<1,3,0,1,0,0>>), Str(<<1,3,0,0,0,0>>)) }

\* "110101", "110201" (its city is in no dataset) and "110", shorter than a
\* city prefix
AreaData ==
    { flatNode(Str(<<1,1,0,1,0,1>>), Str(<<1,1,0,1,0,0>>)),
      flatNode(Str(<<1,1,0,2,0,1>>), Str(<<1,1,0,2,0,0>>)),
      flatNode(Str(<<1,1,0>>), Str(<<1,1,0,1,0,0>>)) }

\* "110101001", and "110102001", whose area is in no dataset
StreetData ==
    { flatNode(Str(<<1,1,0,1,0,1,0,0,1>>), Str(<<1,1,0,1,0,1>>)),
      flatNode(Str(<<1,1,0,1,0,2,0,0,1>>), Str(<<1,1,0,1,0,2>>)) }

\* level letters of the record names: P, C, A, S
LevelTag == <<80, 67, 65, 83>>

\* the name of the i-th record of a level: "P1", "C2", ...
NameOf(level, i) == <<LevelTag[level], 48 + i>>

\* the sequences over D of length n, every record named after its position
Named(level, D, n) ==
    { [i \in 1..n |-> [Code |-> f[i].Code, Name |-> NameOf(level, i),
                       ParentCode |-> f[i].ParentCode]] : f \in [1..n -> D] }

----------------------------------------------------------------------------
(* Tree Builder: buildTrees *)

\* &Area{Code: r.Code, Name: r.Name, ParentCode: parent}: Left and Right are
\* zero until assignKeys runs, and a nil and an empty SubAreas are both <<>>
Area(r, parent) ==
    [Code |-> r.Code, Name |-> r.Name, ParentCode |-> parent,
     Left |-> 0, Right |-> 0, SubAreas |-> <<>>]

\* AppendChild with the new node put in front of its siblings
AppendChildFront(subs, node) == <<node>> \o subs

\* x.SubAreas = append(x.SubAreas, node)
AppendChild(subs, node) == Append(subs, node)

\* the locals of buildTrees; ok turns FALSE when a statement panics
BuildStart ==
    [trees |-> <<>>, provinceOrder |-> EmptyMap, cityOrder |-> EmptyMap,
     areaOrder |-> EmptyMap, ok |-> TRUE]

Failed(st) == [st EXCEPT !.ok = FALSE]

\* the body of the loop over provinces, i the 0-based loop index
AddProvince(st, p, i) ==
    [st EXCEPT !.trees = Append(@, Area(p, RootParentCode)),
               !.provinceOrder = MapSet(@, p.Code, i)]

\* the body of the loop over cities
AddCity(st, c, spare) ==
    LET pCode == getProvince(c.Code, spare)
        pi    == MapGet(st.provinceOrder, pCode)
    IN  IF pCode = Panic \/ pi >= Len(st.trees) THEN Failed(st)
        ELSE LET subs == AppendChild(st.trees[pi + 1].SubAreas, Area(c, c.ParentCode))
             IN  [st EXCEPT !.trees[pi + 1].SubAreas = subs,
                            !.cityOrder = MapSet(@, c.Code, Len(subs) - 1)]

\* the body of the loop over areas
AddArea(st, a, spare) ==
    LET pCode == getProvince(a.Code, spare)
        cCode == getCity(a.Code, spare)
        pi    == MapGet(st.provinceOrder, pCode)
        ci    == MapGet(st.cityOrder, cCode)
    IN  IF pCode = Panic \/ cCode = Panic \/ pi >= Len(st.trees) THEN Failed(st)
        ELSE IF ci >= Len(st.trees[pi + 1].SubAreas) THEN Failed(st)
        ELSE LET subs == AppendChild(st.trees[pi + 1].SubAreas[ci + 1].SubAreas,
                                     Area(a, a.ParentCode))
             IN  [st EXCEPT !.trees[pi + 1].SubAreas[ci + 1].SubAreas = subs,
                            !.areaOrder = MapSet(@, a.Code, Len(subs) - 1)]

\* the body of the loop over streets
AddStreet(st, s, spare) ==
    LET pCode == getProvince(s.Code, spare)
        cCode == getCity(s.Code, spare)
        aCode == getArea(s.Code, spare)
        pi    == MapGet(st.provinceOrder, pCode)
        ci    == MapGet(st.cityOrder, cCode)
        ai    == MapGet(st.areaOrder, aCode)
    IN  IF pCode = Panic \/ cCode = Panic \/ aCode = Panic \/ pi >= Len(st.trees)
        THEN Failed(st)
        ELSE IF ci >= Len(st.trees[pi + 1].SubAreas) THEN Failed(st)
        ELSE IF ai >= Len(st.trees[pi + 1].SubAreas[ci + 1].SubAreas) THEN Failed(st)
        ELSE [st EXCEPT !.trees[pi + 1].SubAreas[ci + 1].SubAreas[ai + 1].SubAreas =
                            AppendChild(@, Area(s, s.ParentCode))]

RECURSIVE ProvinceLoop(_, _, _)
ProvinceLoop(st, ps, i) ==
    IF i > Len(ps) THEN st ELSE ProvinceLoop(AddProvince(st, ps[i], i - 1), ps, i + 1)

RECURSIVE CityLoop(_, _, _, _)
CityLoop(st, cs, i, spare) ==
    IF i > Len(cs) \/ ~st.ok THEN st
    ELSE CityLoop(AddCity(st, cs[i], spare), cs, i + 1, spare)

RECURSIVE AreaLoop(_, _, _, _)
AreaLoop(st, as, i, spare) ==
    IF i > Len(as) \/ ~st.ok THEN st
    ELSE AreaLoop(AddArea(st, as[i], spare), as, i + 1, spare)

RECURSIVE StreetLoop(_, _, _, _)
StreetLoop(st, ss, i, spare) ==
    IF i > Len(ss) \/ ~st.ok THEN st
    ELSE StreetLoop(AddStreet(st, ss[i], spare), ss, i + 1, spare)

\* buildTrees() on the four global collections
buildTrees(ps, cs, as, ss, spare) ==
    StreetLoop(AreaLoop(CityLoop(ProvinceLoop(BuildStart, ps, 1), cs, 1, spare),
                        as, 1, spare), ss, 1, spare)

----------------------------------------------------------------------------
(* Nested-Set Indexer: assignKeys, indexTree *)

\* start++ on an int32.  The counter ends at twice the number of nodes, which
\* the bound on the input keeps far below the int32 maximum, so the wrap of
\* the increment is outside the model.
Incr(start) == start + 1

RECURSIVE indexTree(_, _)
RECURSIVE indexSubAreas(_, _, _)
RECURSIVE indexSubAreasBackwards(_, _, _)

\* indexSubAreas visiting the children from the last to the first
indexSubAreasBackwards(subs, i, start) ==
    IF i > Len(subs) THEN [subs |-> subs, start |-> start]
    ELSE LET k == Len(subs) - i + 1
             r == indexTree(subs[k], start)
         IN  indexSubAreasBackwards([subs EXCEPT ![k] = r.node], i + 1, r.start)

\* the loop of indexTree over root.SubAreas from index i on: the indexed
\* children and the counter after them
indexSubAreas(subs, i, start) ==
    IF i > Len(subs) THEN [subs |-> subs, start |-> start]
    ELSE LET r == indexTree(subs[i], start)
         IN  indexSubAreas([subs EXCEPT ![i] = r.node], i + 1, r.start)

\* indexTree without the increment before root.Right is assigned
indexTreeNoExitIncrement(root, start) ==
    LET left  == Incr(start)
        r     == indexSubAreas(root.SubAreas, 1, left)
    IN  [node  |-> [root EXCEPT !.Left = left, !.Right = r.start, !.SubAreas = r.subs],
         start |-> r.start]

\* indexTree(root, start): the indexed node and the returned counter
indexTree(root, start) ==
    LET left  == Incr(start)
        r     == indexSubAreas(root.SubAreas, 1, left)
        right == Incr(r.start)
    IN  [node  |-> [root EXCEPT !.Left = left, !.Right = right, !.SubAreas = r.subs],
         start |-> right]

RECURSIVE assignLoopRestarting(_, _, _)
\* assignLoop with the counter restarted at every root
assignLoopRestarting(ts, i, start) ==
    IF i > Len(ts) THEN ts
    ELSE LET r == indexTree(ts[i], 0)
         IN  assignLoopRestarting([ts EXCEPT ![i] = r.node], i + 1, r.start)

RECURSIVE assignLoop(_, _, _)
\* the loop of assignKeys over the roots from index i on
assignLoop(ts, i, start) ==
    IF i > Len(ts) THEN ts
    ELSE LET r == indexTree(ts[i], start)
         IN  assignLoop([ts EXCEPT ![i] = r.node], i + 1, r.start)

\* assignKeys(trees): the forest with every Left and Right assigned
assignKeys(ts) == assignLoop(ts, 1, 0)

----------------------------------------------------------------------------
(* Statement Emitter: genSQLFile, genSQL *)

RECURSIVE itoa(_)
\* strconv.FormatInt(int64(i), 10)
itoa(i) ==
    IF i < 0 THEN <<45>> \o itoa(0 - i)
    ELSE IF i < 10 THEN <<48 + i>>
    ELSE itoa(i \div 10) \o <<48 + (i % 10)>>

\* the statement genSQL writes for a node, as the strings written between the
\* fixed pieces of text (insertPrefix, ", '", "', ", ", ", ");\n")
Statement(area, depth) ==
    [id    |-> area.Code,
     node  |-> area.Name,
     pid   |-> area.ParentCode,
     depth |-> itoa(depth),
     lft   |-> itoa(area.Left),
     rgt   |-> itoa(area.Right)]

\* ChildDepth without the increment
ChildDepthSame(depth) == depth

\* the depth genSQL passes down: depth+1
ChildDepth(depth) == depth + 1

\* the calls genSQL(f, sub, depth) still to run for a list of nodes, in order
Calls(subs, depth) == [i \in DOMAIN subs |-> [area |-> subs[i], depth |-> depth]]

\* Descend with the calls for the SubAreas queued behind the callers' work
DescendLater(area, depth, rest) == rest \o Calls(area.SubAreas, ChildDepth(depth))

\* the calls outstanding once a node's statement is written: the recursive
\* calls for its SubAreas run before whatever the callers still have to do
Descend(area, depth, rest) == Calls(area.SubAreas, ChildDepth(depth)) \o rest

\* WriteError that only logs: the traversal goes on with the remaining calls
WriteErrorIgnored(rest) ==
    [pending |-> rest, pc |-> IF rest = <<>> THEN "done" ELSE "emitting"]

\* log.Panic in genSQL: the panic unwinds every outstanding call up to the
\* recover of main, which returns
WriteError(rest) == [pending |-> <<>>, pc |-> "aborted"]

----------------------------------------------------------------------------
(* The program: main *)

Init ==
    /\ \E np \in 0..MaxRecords : \E nc \in 0..(MaxRecords - np) :
       \E na \in 0..(MaxRecords - np - nc) : \E ns \in 0..(MaxRecords - np - nc - na) :
          /\ provinces \in Named(1, ProvinceData, np)
          /\ cities \in Named(2, CityData, nc)
          /\ areas \in Named(3, AreaData, na)
          /\ streets \in Named(4, StreetData, ns)
    /\ trees = <<>>
    /\ provinceOrder = EmptyMap
    /\ cityOrder = EmptyMap
    /\ areaOrder = EmptyMap
    /\ pending = <<>>
    /\ out = <<>>
    /\ pc = "start"
    /\ recovered = "nil"

\* trees := buildTrees().  A panic inside leaves main through its recover,
\* without a forest.
BuildTrees ==
    /\ pc = "start"
    /\ \E spare \in BOOLEAN :
         LET st == buildTrees(provinces, cities, areas, streets, spare)
         IN  /\ trees' = IF st.ok THEN st.trees ELSE <<>>
             /\ provinceOrder' = st.provinceOrder
             /\ cityOrder' = st.cityOrder
             /\ areaOrder' = st.areaOrder
             /\ pc' = IF st.ok THEN "built" ELSE "aborted"
             /\ recovered' = IF st.ok THEN "nil" ELSE "runtime error"
    /\ UNCHANGED <<provinces, cities, areas, streets, pending, out>>

\* assignKeys(trees), then the log line reading trees[0].Left and
\* trees[len(trees)-1].Right, which panics on an empty forest
AssignKeys ==
    /\ pc = "built"
    /\ trees' = assignKeys(trees)
    /\ pc' = IF Len(trees) = 0 THEN "aborted" ELSE "indexed"
    /\ recovered' = IF Len(trees) = 0 THEN "runtime error" ELSE "nil"
    /\ UNCHANGED <<provinces, cities, areas, streets,
                   provinceOrder, cityOrder, areaOrder, pending, out>>

\* genSQLFile: os.Create succeeds, the loop over the roots is about to run
GenSQLFile ==
    /\ pc = "indexed"
    /\ pending' = Calls(trees, 1)
    /\ pc' = "emitting"
    /\ UNCHANGED <<provinces, cities, areas, streets, trees,
                   provinceOrder, cityOrder, areaOrder, out, recovered>>

\* genSQLFile: os.Create fails, log.Panic
GenSQLFileCreateFails ==
    /\ pc = "indexed"
    /\ pc' = "aborted"
    /\ recovered' = "os.Create error"
    /\ UNCHANGED <<provinces, cities, areas, streets, trees,
                   provinceOrder, cityOrder, areaOrder, pending, out>>

\* one call of genSQL whose f.Write succeeds; after the last one genSQLFile
\* returns
GenSQL ==
    /\ pc = "emitting"
    /\ pending # <<>>
    /\ LET call == Head(pending)
       IN  /\ out' = Append(out, Statement(call.area, call.depth))
           /\ pending' = Descend(call.area, call.depth, Tail(pending))
    /\ pc' = IF pending' = <<>> THEN "done" ELSE "emitting"
    /\ UNCHANGED <<provinces, cities, areas, streets, trees,
                   provinceOrder, cityOrder, areaOrder, recovered>>

\* one call of genSQL whose f.Write returns an error
GenSQLWriteFails ==
    /\ pc = "emitting"
    /\ pending # <<>>
    /\ LET r == WriteError(Tail(pending))
       IN  /\ pending' = r.pending
           /\ pc' = r.pc
    /\ recovered' = "f.Write error"
    /\ UNCHANGED <<provinces, cities, areas, streets, trees,
                   provinceOrder, cityOrder, areaOrder, out>>

Next ==
    \/ BuildTrees
    \/ AssignKeys
    \/ GenSQLFile
    \/ GenSQLFileCreateFails
    \/ GenSQL
    \/ GenSQLWriteFails

Spec == Init /\ [][Next]_vars

----------------------------------------------------------------------------
(* Vocabulary of the properties *)

RECURSIVE PreOrder(_)
\* the nodes of a list of trees in pre-order: each node, then its subtree
\* with the children in stored order, then the next tree
PreOrder(subs) ==
    IF subs = <<>> THEN <<>>
    ELSE <<Head(subs)>> \o PreOrder(Head(subs).SubAreas) \o PreOrder(Tail(subs))

Range(seq) == { seq[i] : i \in DOMAIN seq }

\* all nodes of the forest
AllNodes == Range(PreOrder(trees))

\* the descendants of a node: children, grandchildren, great-grandchildren
Descendants(n) == Range(PreOrder(n.SubAreas))

\* the sibling lists of the forest: the roots, and every node's SubAreas
SiblingLists == {trees} \cup { n.SubAreas : n \in AllNodes }

RECURSIVE atoi(_)
\* the number a decimal string denotes
atoi(str) ==
    IF str = <<>> THEN 0
    ELSE IF Head(str) = 45 THEN 0 - atoi(Tail(str))
    ELSE 10 * atoi(SubSeq(str, 1, Len(str) - 1)) + (str[Len(str)] - 48)

\* the level of the collection a node (or statement) was built from, read
\* off the record name: 1 province, 2 city, 3 area, 4 street
LevelOf(name) == CHOOSE l \in 1..4 : LevelTag[l] = name[1]

\* the position of the record in its collection, read off the record name
PositionOf(name) == name[2] - 48

\* buildTrees returned a forest to main
BuildReturned ==
    \/ pc \in {"built", "indexed", "emitting", "done"}
    \/ pc = "aborted" /\ recovered \in {"os.Create error", "f.Write error"}

\* assignKeys has run on the forest buildTrees returned
KeysAssigned == BuildReturned /\ pc # "built"

\* the minimal lengths the levels require of a code
ShortRecord ==
    \/ \E i \in DOMAIN provinces : Len(provinces[i].Code) < 2
    \/ \E i \in DOMAIN cities : Len(cities[i].Code) < 4
    \/ \E i \in DOMAIN areas : Len(areas[i].Code) < 6
    \/ \E i \in DOMAIN streets : Len(streets[i].Code) < 6

\* the resolved codes of a code long enough for the resolver, where the
\* result does not depend on the implementation
provinceOf(code) == getProvince(code, FALSE)
cityOf(code) == getCity(code, FALSE)
areaOf(code) == getArea(code, FALSE)

\* some record's resolved province, city or area code is no key of the
\* lookup table of that level
UnresolvedRecord ==
    \/ \E i \in DOMAIN cities :
          /\ Len(cities[i].Code) >= 2
          /\ provinceOf(cities[i].Code) \notin DOMAIN provinceOrder
    \/ \E i \in DOMAIN areas :
          /\ Len(areas[i].Code) >= 4
          /\ \/ provinceOf(areas[i].Code) \notin DOMAIN provinceOrder
             \/ cityOf(areas[i].Code) \notin DOMAIN cityOrder
    \/ \E i \in DOMAIN streets :
          /\ Len(streets[i].Code) >= 6
          /\ \/ provinceOf(streets[i].Code) \notin DOMAIN provinceOrder
             \/ cityOf(streets[i].Code) \notin DOMAIN cityOrder
             \/ areaOf(streets[i].Code) \notin DOMAIN areaOrder

----------------------------------------------------------------------------
(* Properties *)

\* C1: once assignKeys has run, every node has Left < Right and every
\* descendant D of every node N satisfies N.Left < D.Left < D.Right < N.Right.
C1_Containment ==
    KeysAssigned =>
        \A n \in AllNodes :
            /\ n.Left < n.Right
            /\ \A d \in Descendants(n) :
                  n.Left < d.Left /\ d.Left < d.Right /\ d.Right < n.Right

\* a forest with keys assigned in which a province has a great-grandchild
C1_Witness ==
    /\ pc = "indexed"
    /\ \E p \in Range(trees) : \E d \in Descendants(p) : LevelOf(d.Name) = 4

\* C2: once assignKeys has run on a forest of n nodes, every value of 1..2n is
\* the Left or the Right of exactly one node, and no other value is assigned.
C2_RangeContinuity ==
    KeysAssigned =>
        LET po   == PreOrder(trees)
            n    == Len(po)
            keys == [i \in 1..(2 * n) |->
                        IF i <= n THEN po[i].Left ELSE po[i - n].Right]
        IN  /\ Range(keys) = 1..(2 * n)
            /\ \A i, j \in 1..(2 * n) : keys[i] = keys[j] => i = j

\* keys assigned to a forest of several roots, a later root having a child
C2_Witness ==
    /\ pc = "indexed"
    /\ Len(trees) >= 2
    /\ trees[1].SubAreas # <<>>
    /\ trees[2].SubAreas # <<>>

\* C3: once assignKeys has run, in every sibling list (the roots, and each
\* node's SubAreas) each node's Right is below the next node's Left; two
\* childless provinces get (1,2) and (3,4).
C3_SiblingOrder ==
    KeysAssigned =>
        /\ \A subs \in SiblingLists :
              \A i \in 1..(Len(subs) - 1) : subs[i].Right < subs[i + 1].Left
        /\ (Len(trees) = 2 /\ trees[1].SubAreas = <<>> /\ trees[2].SubAreas = <<>>)
              => /\ trees[1].Left = 1 /\ trees[1].Right = 2
                 /\ trees[2].Left = 3 /\ trees[2].Right = 4

\* keys assigned to a forest with two roots and a node with two children
C3_Witness ==
    /\ pc = "indexed"
    /\ Len(trees) >= 2
    /\ \E n \in AllNodes : Len(n.SubAreas) >= 2

\* C4: in the forest buildTrees returns, the resolver applied to a node's own
\* code gives the codes of the ancestors it hangs under: province for a city,
\* city and province for an area, area, city and province for a street.
\* (Stated for the codes long enough for the resolver.)
C4_AncestorsRederived ==
    BuildReturned =>
        \A p \in Range(trees) : \A c \in Range(p.SubAreas) :
            /\ Len(c.Code) >= 2 => p.Code = provinceOf(c.Code)
            /\ \A a \in Range(c.SubAreas) :
                  /\ Len(a.Code) >= 4 =>
                        c.Code = cityOf(a.Code) /\ p.Code = provinceOf(a.Code)
                  /\ \A s \in Range(a.SubAreas) :
                        Len(s.Code) >= 6 =>
                            /\ a.Code = areaOf(s.Code)
                            /\ c.Code = cityOf(s.Code)
                            /\ p.Code = provinceOf(s.Code)

\* C5: when a record's resolved province, city or area code is no key of the
\* lookup table of its level, the run aborts in buildTrees: no forest, no
\* keys, no statement.
C5_UnresolvedParentIsFatal ==
    (pc # "start" /\ UnresolvedRecord) =>
        /\ pc = "aborted"
        /\ recovered = "runtime error"
        /\ trees = <<>>
        /\ out = <<>>

\* C6: when a record of any of the four collections has a code shorter than
\* its level requires, the run aborts: no forest, no keys, no statement.
C6_ShortCodeIsFatal ==
    (pc # "start" /\ ShortRecord) =>
        /\ pc = "aborted"
        /\ recovered = "runtime error"
        /\ trees = <<>>
        /\ out = <<>>

\* C7: in the forest buildTrees returns, the roots are the province records in
\* input order, and the children of every node are records of one collection
\* in the order of that collection.
C7_OrderPreserved ==
    BuildReturned =>
        /\ Len(trees) = Len(provinces)
        /\ \A i \in DOMAIN trees :
              trees[i].Name = provinces[i].Name /\ trees[i].Code = provinces[i].Code
        /\ \A n \in AllNodes : \A i, j \in DOMAIN n.SubAreas :
              i < j => /\ LevelOf(n.SubAreas[i].Name) = LevelOf(n.SubAreas[j].Name)
                       /\ PositionOf(n.SubAreas[i].Name) < PositionOf(n.SubAreas[j].Name)

\* a returned forest with two roots and two records attached to one parent
C7_Witness ==
    /\ pc = "built"
    /\ Len(trees) >= 2
    /\ \E n \in AllNodes : Len(n.SubAreas) >= 2

\* C8: when genSQLFile completes, the statements are the nodes of the forest
\* in pre-order, one per node, each with the node's code, name, parent code,
\* Left and Right, and the Left values increase along the output.
C8_PreOrderEmission ==
    pc = "done" =>
        LET po == PreOrder(trees)
        IN  /\ Len(out) = Len(po)
            /\ \A i \in DOMAIN out :
                  /\ out[i].id = po[i].Code
                  /\ out[i].node = po[i].Name
                  /\ out[i].pid = po[i].ParentCode
                  /\ atoi(out[i].lft) = po[i].Left
                  /\ atoi(out[i].rgt) = po[i].Right
            /\ \A i \in 1..(Len(out) - 1) : atoi(out[i].lft) < atoi(out[i + 1].lft)

\* a completed emission of a forest whose first root has a grandchild and is
\* followed by another root
C8_Witness ==
    /\ pc = "done"
    /\ Len(trees) >= 2
    /\ \E c \in Range(trees[1].SubAreas) : c.SubAreas # <<>>

\* C9: every statement of a province node has depth 1, and every statement of
\* another node has the depth of its parent's statement plus 1: 2 for a city,
\* 3 for an area, 4 for a street.
C9_Depth ==
    /\ \A i \in DOMAIN out : atoi(out[i].depth) = LevelOf(out[i].node)
    /\ \A i, j \in DOMAIN out :
          (\E n \in AllNodes : /\ n.Name = out[i].node
                               /\ \E d \in Range(n.SubAreas) : d.Name = out[j].node)
             => atoi(out[j].depth) = atoi(out[i].depth) + 1

\* a completed emission with the statement of a street
C9_Witness ==
    /\ pc = "done"
    /\ \E i \in DOMAIN out : LevelOf(out[i].node) = 4

\* C10: once a write has failed, the statements written are those of the
\* nodes before the failing one in pre-order, no call of genSQL is
\* outstanding and the program takes no further step.
C10_WriteErrorAborts ==
    recovered = "f.Write error" =>
        LET po == PreOrder(trees)
        IN  /\ pc = "aborted"
            /\ pending = <<>>
            /\ ~ENABLED Next
            /\ Len(out) < Len(po)
            /\ \A i \in DOMAIN out : out[i].node = po[i].Name

\* a write failed on a node that has a subtree, a following sibling and a
\* later root still to emit
C10_Witness ==
    /\ recovered = "f.Write error"
    /\ Len(trees) >= 2
    /\ Len(out) = 1
    /\ Len(trees[1].SubAreas) >= 2
    /\ trees[1].SubAreas[1].SubAreas # <<>>

====
